---- MODULE Spec2Model ----
(***************************************************************************)
(* Model of the Kropki Sudoku solver of src/kropki.py (class KropkiSudoku, *)
(* the forward-checking variant, lines 178-356): backtracking search with  *)
(* MRV/degree variable selection, forward checking and domain restoration. *)
(*                                                                         *)
(* The recursion of solve() is unfolded into an explicit call stack; one   *)
(* action per statement of solve() that changes state or transfers control.*)
(* The grid side is 9 and the box side 3 in the source; here both derive   *)
(* from the variable `order` (box side), which Init fixes: 3 for the       *)
(* program as written (Spec), 2 for the 4x4 instance of the same code      *)
(* (SpecSmall) on which exhaustive searches from near-empty boards finish. *)
(***************************************************************************)
EXTENDS Integers, Sequences, FiniteSets, TLC

VARIABLES
    order,            \* box side: the 3 of "3 * (row // 3)"; the grid side is order*order
    initial_board,    \* the constructor's argument initial_board
    board,            \* self.board
    horizontal_dots,  \* self.horizontal_dots
    vertical_dots,    \* self.vertical_dots
    domains,          \* self.domains
    stack,            \* active calls of solve() that are inside their for loop
    pc,               \* control point of the innermost call
    result,           \* outcome of the top-level solve(): "Searching", "Solved", "Unsatisfiable"
    nassign           \* number of executions of line 349 (history)

vars == <<order, initial_board, board, horizontal_dots, vertical_dots,
          domains, stack, pc, result, nassign>>

\* ---------------------------------------------------------------- bounds
\* largest number of cells blanked out of the reference grid in Init
MaxHoles == 4

\* ---------------------------------------------------------------- geometry
\* side of the grid: the 9 of range(9)
N == order * order

Idx == 0 .. (N - 1)

Cells == Idx \X Idx

Values == 1 .. N

\* the value None returned by select_unassigned_variable
None == <<-1, -1>>

abs(x) == IF x < 0 THEN -x ELSE x

\* r//3 == row//3 and c//3 == col//3
same_block(r, c, row, col) ==
    /\ r \div order = row \div order
    /\ c \div order = col \div order

\* ---------------------------------------------------------------- is_valid_assignment
\* the neighbour test with the Black case accepting only num = 2 * other_val
dot_violated_double_only(dot_val, num, other_val) ==
    /\ other_val # 0
    /\ \/ dot_val = 1 /\ abs(num - other_val) # 1
       \/ dot_val = 2 /\ num # 2 * other_val

\* the neighbour test with the Black case left out
dot_violated_white_only(dot_val, num, other_val) ==
    /\ other_val # 0
    /\ dot_val = 1 /\ abs(num - other_val) # 1

\* lines 213-217 (and 222-226, 232-236, 241-245): the test against one neighbour
dot_violated(dot_val, num, other_val) ==
    /\ other_val # 0
    /\ \/ dot_val = 1 /\ abs(num - other_val) # 1
       \/ dot_val = 2 /\ (num # 2 * other_val /\ other_val # 2 * num)

\* is_valid_assignment without the test against the left neighbour
is_valid_assignment_no_left(bd, row, col, num) ==
    /\ ~ \E i \in Idx : bd[<<row, i>>] = num
    /\ ~ \E i \in Idx : bd[<<i, col>>] = num
    /\ LET start_row == order * (row \div order)
           start_col == order * (col \div order)
       IN  ~ \E r \in start_row .. (start_row + order - 1),
                c \in start_col .. (start_col + order - 1) : bd[<<r, c>>] = num
    /\ ~ ( /\ col < N - 1
           /\ horizontal_dots[<<row, col>>] # 0
           /\ dot_violated(horizontal_dots[<<row, col>>], num, bd[<<row, col + 1>>]) )
    /\ ~ ( /\ row < N - 1
           /\ vertical_dots[<<row, col>>] # 0
           /\ dot_violated(vertical_dots[<<row, col>>], num, bd[<<row + 1, col>>]) )
    /\ ~ ( /\ row > 0
           /\ vertical_dots[<<row - 1, col>>] # 0
           /\ dot_violated(vertical_dots[<<row - 1, col>>], num, bd[<<row - 1, col>>]) )

\* is_valid_assignment without its column test
is_valid_assignment_no_column(bd, row, col, num) ==
    /\ ~ \E i \in Idx : bd[<<row, i>>] = num
    /\ LET start_row == order * (row \div order)
           start_col == order * (col \div order)
       IN  ~ \E r \in start_row .. (start_row + order - 1),
                c \in start_col .. (start_col + order - 1) : bd[<<r, c>>] = num
    /\ ~ ( /\ col < N - 1
           /\ horizontal_dots[<<row, col>>] # 0
           /\ dot_violated(horizontal_dots[<<row, col>>], num, bd[<<row, col + 1>>]) )
    /\ ~ ( /\ col > 0
           /\ horizontal_dots[<<row, col - 1>>] # 0
           /\ dot_violated(horizontal_dots[<<row, col - 1>>], num, bd[<<row, col - 1>>]) )
    /\ ~ ( /\ row < N - 1
           /\ vertical_dots[<<row, col>>] # 0
           /\ dot_violated(vertical_dots[<<row, col>>], num, bd[<<row + 1, col>>]) )
    /\ ~ ( /\ row > 0
           /\ vertical_dots[<<row - 1, col>>] # 0
           /\ dot_violated(vertical_dots[<<row - 1, col>>], num, bd[<<row - 1, col>>]) )

is_valid_assignment(bd, row, col, num) ==
    \* row constraint
    /\ ~ \E i \in Idx : bd[<<row, i>>] = num
    \* column constraint
    /\ ~ \E i \in Idx : bd[<<i, col>>] = num
    \* block constraint
    /\ LET start_row == order * (row \div order)
           start_col == order * (col \div order)
       IN  ~ \E r \in start_row .. (start_row + order - 1),
                c \in start_col .. (start_col + order - 1) : bd[<<r, c>>] = num
    \* horizontal checks
    /\ ~ ( /\ col < N - 1
           /\ horizontal_dots[<<row, col>>] # 0
           /\ dot_violated(horizontal_dots[<<row, col>>], num, bd[<<row, col + 1>>]) )
    /\ ~ ( /\ col > 0
           /\ horizontal_dots[<<row, col - 1>>] # 0
           /\ dot_violated(horizontal_dots[<<row, col - 1>>], num, bd[<<row, col - 1>>]) )
    \* vertical checks
    /\ ~ ( /\ row < N - 1
           /\ vertical_dots[<<row, col>>] # 0
           /\ dot_violated(vertical_dots[<<row, col>>], num, bd[<<row + 1, col>>]) )
    /\ ~ ( /\ row > 0
           /\ vertical_dots[<<row - 1, col>>] # 0
           /\ dot_violated(vertical_dots[<<row - 1, col>>], num, bd[<<row - 1, col>>]) )

\* ---------------------------------------------------------------- forward_check
\* update_domain_with_dot_constraint keeping, at a Black dot, only the double of num
update_domain_black_double_only(bd, st, row, col, num, dot_type) ==
    CHOOSE res \in
        { IF 0 <= row /\ row < N /\ 0 <= col /\ col < N /\ bd[<<row, col>>] = 0
          THEN LET domain == s.domains[<<row, col>>]
                   pruned == IF dot_type = 1 THEN {x \in domain : abs(x - num) = 1}
                             ELSE IF dot_type = 2 THEN {x \in domain : x = 2 * num}
                                  ELSE domain
               IN  [domains  |-> [s.domains EXCEPT ![<<row, col>>] = pruned],
                    affected |-> s.affected \cup {<<row, col>>}]
          ELSE s
          : s \in {st} } : TRUE

\* update_domain_with_dot_constraint without the test that the neighbour is Empty
update_domain_any_cell(bd, st, row, col, num, dot_type) ==
    CHOOSE res \in
        { IF 0 <= row /\ row < N /\ 0 <= col /\ col < N
          THEN LET domain == s.domains[<<row, col>>]
                   pruned == IF dot_type = 1 THEN {x \in domain : abs(x - num) = 1}
                             ELSE IF dot_type = 2
                                  THEN {x \in domain : x = 2 * num \/ num = 2 * x}
                                  ELSE domain
               IN  [domains  |-> [s.domains EXCEPT ![<<row, col>>] = pruned],
                    affected |-> s.affected \cup {<<row, col>>}]
          ELSE s
          : s \in {st} } : TRUE

\* update_domain_with_dot_constraint without line 294: the neighbour is pruned but
\* not entered in affected_cells
update_domain_not_recorded(bd, st, row, col, num, dot_type) ==
    CHOOSE res \in
        { IF 0 <= row /\ row < N /\ 0 <= col /\ col < N /\ bd[<<row, col>>] = 0
          THEN LET domain == s.domains[<<row, col>>]
                   pruned == IF dot_type = 1 THEN {x \in domain : abs(x - num) = 1}
                             ELSE IF dot_type = 2
                                  THEN {x \in domain : x = 2 * num \/ num = 2 * x}
                                  ELSE domain
               IN  [domains  |-> [s.domains EXCEPT ![<<row, col>>] = pruned],
                    affected |-> s.affected]
          ELSE s
          : s \in {st} } : TRUE

\* update_domain_with_dot_constraint with the Black case left out
update_domain_white_only(bd, st, row, col, num, dot_type) ==
    CHOOSE res \in
        { IF 0 <= row /\ row < N /\ 0 <= col /\ col < N /\ bd[<<row, col>>] = 0
          THEN LET domain == s.domains[<<row, col>>]
                   pruned == IF dot_type = 1 THEN {x \in domain : abs(x - num) = 1}
                             ELSE domain
               IN  [domains  |-> [s.domains EXCEPT ![<<row, col>>] = pruned],
                    affected |-> s.affected \cup {<<row, col>>}]
          ELSE s
          : s \in {st} } : TRUE

\* st = [domains, affected] is the state of forward_check before the call, (row, col)
\* the neighbour of the assigned cell. (st is bound as a value, so that it is
\* computed once.)
update_domain_with_dot_constraint(bd, st, row, col, num, dot_type) ==
    CHOOSE res \in
        { IF 0 <= row /\ row < N /\ 0 <= col /\ col < N /\ bd[<<row, col>>] = 0
          THEN LET domain == s.domains[<<row, col>>]
                   pruned == IF dot_type = 1 THEN {x \in domain : abs(x - num) = 1}
                             ELSE IF dot_type = 2
                                  THEN {x \in domain : x = 2 * num \/ num = 2 * x}
                                  ELSE domain
               IN  [domains  |-> [s.domains EXCEPT ![<<row, col>>] = pruned],
                    affected |-> s.affected \cup {<<row, col>>}]
          ELSE s
          : s \in {st} } : TRUE

\* bd is the board after line 349; the result is [domains, ok]
forward_check(bd, doms, row, col, num) ==
    LET \* lines 254-267: the Empty cells of the row, column and block that hold num
        hit(c) == /\ (c[1] = row \/ c[2] = col \/ same_block(c[1], c[2], row, col))
                  /\ bd[c] = 0
                  /\ num \in doms[c]
        s0   == [domains  |-> [c \in Cells |-> IF hit(c) THEN doms[c] \ {num} ELSE doms[c]],
                 affected |-> {c \in Cells : hit(c)}]
        \* lines 270-277
        s1   == IF col < N - 1
                THEN update_domain_with_dot_constraint(bd, s0, row, col + 1, num,
                                                       horizontal_dots[<<row, col>>])
                ELSE s0
        s2   == IF col > 0
                THEN update_domain_with_dot_constraint(bd, s1, row, col - 1, num,
                                                       horizontal_dots[<<row, col - 1>>])
                ELSE s1
        s3   == IF row < N - 1
                THEN update_domain_with_dot_constraint(bd, s2, row + 1, col, num,
                                                       vertical_dots[<<row, col>>])
                ELSE s2
        s4   == IF row > 0
                THEN update_domain_with_dot_constraint(bd, s3, row - 1, col, num,
                                                       vertical_dots[<<row - 1, col>>])
                ELSE s3
    IN  \* lines 281-284
        CHOOSE res \in { [domains |-> s.domains,
                          ok      |-> \A c \in s.affected : s.domains[c] # {}]
                         : s \in {s4} } : TRUE

\* restore_domains that leaves the pruned domains as they are
restore_domains_keep(bd, doms, row, col) == doms

\* restore_domains resetting the Empty cells of the row, column and block to 1..9
restore_domains_all_values(bd, doms, row, col) ==
    [c \in Cells |->
        IF /\ bd[c] = 0
           /\ (c[1] = row \/ c[2] = col \/ same_block(c[1], c[2], row, col))
        THEN Values
        ELSE doms[c]]

\* bd is the board after line 353
restore_domains(bd, doms, row, col) ==
    [c \in Cells |->
        IF /\ bd[c] = 0
           /\ (c[1] = row \/ c[2] = col \/ same_block(c[1], c[2], row, col))
        THEN {x \in Values : is_valid_assignment(bd, c[1], c[2], x)}
        ELSE doms[c]]

\* ---------------------------------------------------------------- select_unassigned_variable
\* the count taken unit by unit: row, plus column, plus block
count_constraints_per_unit(bd, row, col) ==
    Cardinality({c \in Cells : c[1] = row /\ bd[c] # 0})
    + Cardinality({c \in Cells : c[2] = col /\ bd[c] # 0})
    + Cardinality({c \in Cells : same_block(c[1], c[2], row, col) /\ bd[c] # 0})

\* lines 334-337: one pass over the grid, each filled cell counted at most once
count_constraints(bd, row, col) ==
    Cardinality({c \in Cells :
                    /\ (c[1] = row \/ c[2] = col \/ same_block(c[1], c[2], row, col))
                    /\ bd[c] # 0})

\* the inner loop without the test that the cell is Empty
RECURSIVE scan_row_any_cell(_, _, _, _, _)
scan_row_any_cell(bd, doms, row, col, best) ==
    IF col = N THEN best
    ELSE LET remaining_values == Cardinality(doms[<<row, col>>])
             degree == count_constraints(bd, row, col)
             updated ==
                 IF \/ remaining_values < best.min_remaining_values
                    \/ /\ remaining_values = best.min_remaining_values
                       /\ degree > best.max_degree
                 THEN [min_remaining_values |-> remaining_values,
                       max_degree           |-> degree,
                       selected_var         |-> <<row, col>>]
                 ELSE best
         IN  CHOOSE r \in {scan_row_any_cell(bd, doms, row, col + 1, b) : b \in {updated}} : TRUE

\* the inner loop with "degree >= max_degree": among equals the last cell scanned wins
RECURSIVE scan_row_last_wins(_, _, _, _, _)
scan_row_last_wins(bd, doms, row, col, best) ==
    IF col = N THEN best
    ELSE LET remaining_values == Cardinality(doms[<<row, col>>])
             degree == count_constraints(bd, row, col)
             updated ==
                 IF /\ bd[<<row, col>>] = 0
                    /\ \/ remaining_values < best.min_remaining_values
                       \/ /\ remaining_values = best.min_remaining_values
                          /\ degree >= best.max_degree
                 THEN [min_remaining_values |-> remaining_values,
                       max_degree           |-> degree,
                       selected_var         |-> <<row, col>>]
                 ELSE best
         IN  CHOOSE r \in {scan_row_last_wins(bd, doms, row, col + 1, b) : b \in {updated}} : TRUE

\* the inner loop (line 318) over the columns of a row, from column col on; best holds
\* min_remaining_values, max_degree and selected_var. (The updated record is bound
\* as a value before the next iteration, so that it is computed once.)
RECURSIVE scan_row(_, _, _, _, _)
scan_row(bd, doms, row, col, best) ==
    IF col = N THEN best
    ELSE LET remaining_values == Cardinality(doms[<<row, col>>])
             degree == count_constraints(bd, row, col)
             updated ==
                 IF /\ bd[<<row, col>>] = 0
                    /\ \/ remaining_values < best.min_remaining_values
                       \/ /\ remaining_values = best.min_remaining_values
                          /\ degree > best.max_degree
                 THEN [min_remaining_values |-> remaining_values,
                       max_degree           |-> degree,
                       selected_var         |-> <<row, col>>]
                 ELSE best
         IN  CHOOSE r \in {scan_row(bd, doms, row, col + 1, b) : b \in {updated}} : TRUE

\* the outer loop (line 317) over the rows, from row on
RECURSIVE scan_rows(_, _, _, _)
scan_rows(bd, doms, row, best) ==
    IF row = N THEN best
    ELSE CHOOSE r \in {scan_rows(bd, doms, row + 1, b) :
                          b \in {scan_row(bd, doms, row, 0, best)}} : TRUE

select_unassigned_variable(bd, doms) ==
    scan_rows(bd, doms, 0,
              [min_remaining_values |-> N + 1,
               max_degree           |-> -1,
               selected_var         |-> None]).selected_var

\* the list of a domain in descending order
sorted_descending(S) ==
    [k \in 1 .. Cardinality(S) |->
        CHOOSE x \in S : Cardinality({y \in S : y > x}) = k - 1]

\* sorted(self.domains[row][col]): the ascending list of a domain
sorted(S) ==
    [k \in 1 .. Cardinality(S) |->
        CHOOSE x \in S : Cardinality({y \in S : y < x}) = k - 1]

\* ---------------------------------------------------------------- solve
\* the innermost active call of solve()
top == stack[Len(stack)]

\* the value num of the current iteration of the for loop of line 347
cur_num == top.cands[top.i]

\* line 342-344: the call finds no Empty cell and returns True
SolveEnterNone ==
    /\ pc = "call"
    /\ select_unassigned_variable(board, domains) = None
    /\ pc' = "return_true"
    /\ UNCHANGED <<order, initial_board, board, horizontal_dots, vertical_dots,
                   domains, stack, result, nassign>>

\* the call selects any Empty cell with the fewest remaining values, as a scan in no
\* fixed order would
SolveEnterUnordered ==
    /\ pc = "call"
    /\ \E var \in {c \in Cells : /\ board[c] = 0
                                  /\ \A d \in Cells : board[d] = 0 =>
                                        Cardinality(domains[c]) <= Cardinality(domains[d])} :
           stack' = Append(stack, [row   |-> var[1],
                                   col   |-> var[2],
                                   cands |-> sorted(domains[var]),
                                   i     |-> 1,
                                   entry |-> board])
    /\ pc' = "loop"
    /\ UNCHANGED <<order, initial_board, board, horizontal_dots, vertical_dots,
                   domains, result, nassign>>

\* line 342-347: the call selects a cell and starts the loop over its sorted domain;
\* entry records the grid at the moment of the call (history)
SolveEnterCell ==
    /\ pc = "call"
    /\ \E var \in {select_unassigned_variable(board, domains)} :
           /\ var # None
           /\ stack' = Append(stack, [row   |-> var[1],
                                      col   |-> var[2],
                                      cands |-> sorted(domains[var]),
                                      i     |-> 1,
                                      entry |-> board])
    /\ pc' = "loop"
    /\ UNCHANGED <<order, initial_board, board, horizontal_dots, vertical_dots,
                   domains, result, nassign>>

\* line 348 false: the candidate is rejected, next iteration
LoopSkip ==
    /\ pc = "loop"
    /\ top.i <= Len(top.cands)
    /\ ~ is_valid_assignment(board, top.row, top.col, cur_num)
    /\ stack' = [stack EXCEPT ![Len(stack)].i = @ + 1]
    /\ UNCHANGED <<order, initial_board, board, horizontal_dots, vertical_dots,
                   domains, pc, result, nassign>>

\* line 348 true, line 349: tentative assignment
Assign ==
    /\ pc = "loop"
    /\ top.i <= Len(top.cands)
    /\ is_valid_assignment(board, top.row, top.col, cur_num)
    /\ board' = [board EXCEPT ![<<top.row, top.col>>] = cur_num]
    /\ nassign' = nassign + 1
    /\ pc' = "forward_check"
    /\ UNCHANGED <<order, initial_board, horizontal_dots, vertical_dots,
                   domains, stack, result>>

\* line 350 with a failed propagation ending the loop: the remaining candidates of the
\* cell are dropped
ForwardCheckAbortsCell ==
    /\ pc = "forward_check"
    /\ LET fc == forward_check(board, domains, top.row, top.col, cur_num)
       IN  /\ domains' = fc.domains
           /\ pc' = IF fc.ok THEN "call" ELSE "unassign"
           /\ stack' = IF fc.ok THEN stack
                       ELSE [stack EXCEPT ![Len(stack)].i = Len(top.cands)]
    /\ UNCHANGED <<order, initial_board, board, horizontal_dots, vertical_dots,
                   result, nassign>>

\* line 350: propagation; on success the recursive call of line 351 is next,
\* on failure control falls to line 353
ForwardCheck ==
    /\ pc = "forward_check"
    /\ LET fc == forward_check(board, domains, top.row, top.col, cur_num)
       IN  /\ domains' = fc.domains
           /\ pc' = IF fc.ok THEN "call" ELSE "unassign"
    /\ UNCHANGED <<order, initial_board, board, horizontal_dots, vertical_dots,
                   stack, result, nassign>>

\* line 356 in a nested call: return False to line 351 of the caller
ReturnFalseNested ==
    /\ pc = "loop"
    /\ top.i > Len(top.cands)
    /\ Len(stack) > 1
    /\ stack' = SubSeq(stack, 1, Len(stack) - 1)
    /\ pc' = "unassign"
    /\ UNCHANGED <<order, initial_board, board, horizontal_dots, vertical_dots,
                   domains, result, nassign>>

\* line 356 in the top-level call: main() reports that no solution exists
ReturnFalseTop ==
    /\ pc = "loop"
    /\ top.i > Len(top.cands)
    /\ Len(stack) = 1
    /\ stack' = <<>>
    /\ pc' = "done"
    /\ result' = "Unsatisfiable"
    /\ UNCHANGED <<order, initial_board, board, horizontal_dots, vertical_dots,
                   domains, nassign>>

\* line 353 left out: the tentative value stays on the grid
UnassignKeepsValue ==
    /\ pc = "unassign"
    /\ pc' = "restore"
    /\ UNCHANGED <<order, initial_board, board, horizontal_dots, vertical_dots,
                   domains, stack, result, nassign>>

\* line 353: undo the assignment
Unassign ==
    /\ pc = "unassign"
    /\ board' = [board EXCEPT ![<<top.row, top.col>>] = 0]
    /\ pc' = "restore"
    /\ UNCHANGED <<order, initial_board, horizontal_dots, vertical_dots,
                   domains, stack, result, nassign>>

\* line 354, then the next iteration of the loop
Restore ==
    /\ pc = "restore"
    /\ domains' = restore_domains(board, domains, top.row, top.col)
    /\ stack' = [stack EXCEPT ![Len(stack)].i = @ + 1]
    /\ pc' = "loop"
    /\ UNCHANGED <<order, initial_board, board, horizontal_dots, vertical_dots,
                   result, nassign>>

\* line 352 in a caller: the recursive call returned True, so does this one
ReturnTrueNested ==
    /\ pc = "return_true"
    /\ stack # <<>>
    /\ stack' = SubSeq(stack, 1, Len(stack) - 1)
    /\ UNCHANGED <<order, initial_board, board, horizontal_dots, vertical_dots,
                   domains, pc, result, nassign>>

\* the top-level call returned True: main() takes the grid as the solution
ReturnTrueTop ==
    /\ pc = "return_true"
    /\ stack = <<>>
    /\ pc' = "done"
    /\ result' = "Solved"
    /\ UNCHANGED <<order, initial_board, board, horizontal_dots, vertical_dots,
                   domains, stack, nassign>>

Next ==
    \/ SolveEnterNone
    \/ SolveEnterCell
    \/ LoopSkip
    \/ Assign
    \/ ForwardCheck
    \/ ReturnFalseNested
    \/ ReturnFalseTop
    \/ Unassign
    \/ Restore
    \/ ReturnTrueNested
    \/ ReturnTrueTop

\* ---------------------------------------------------------------- initial states
\* a solved 9x9 grid (the grid the program itself produces for the empty board)
ReferenceGrid ==
    << <<1, 2, 3, 4, 5, 6, 7, 8, 9>>,
       <<4, 5, 6, 7, 8, 9, 1, 2, 3>>,
       <<7, 8, 9, 1, 2, 3, 4, 5, 6>>,
       <<2, 3, 1, 6, 7, 4, 8, 9, 5>>,
       <<5, 7, 8, 9, 1, 2, 3, 6, 4>>,
       <<6, 9, 4, 8, 3, 5, 2, 1, 7>>,
       <<3, 1, 5, 2, 9, 7, 6, 4, 8>>,
       <<8, 4, 7, 5, 6, 1, 9, 3, 2>>,
       <<9, 6, 2, 3, 4, 8, 5, 7, 1>> >>

\* cells that Init may blank: the interchangeable rectangle (1,6),(1,7),(5,6),(5,7)
\* holding 1,2 / 2,1 and the right neighbour (1,8) of (1,7)
HoleCells == {<<1, 6>>, <<1, 7>>, <<5, 6>>, <<5, 7>>, <<1, 8>>}

\* __init__, lines 187-188
initial_domains(bd) ==
    [c \in Cells |-> {num \in Values : bd[c] = 0 \/ bd[c] = num}]

\* the state after KropkiSudoku(initial_board, horizontal_dots, vertical_dots),
\* just before main() calls solve()
Constructed(b, h, v) ==
    /\ initial_board = b
    /\ board = b
    /\ horizontal_dots = h
    /\ vertical_dots = v
    /\ domains = initial_domains(b)
    /\ stack = <<>>
    /\ pc = "call"
    /\ result = "Searching"
    /\ nassign = 0

\* 9x9 boards: the reference grid with at most MaxHoles of HoleCells blanked and
\* any markers on the edges (1,6)-(1,7), (1,7)-(1,8) and (5,7)-(6,7); the marker-free
\* boards also with (1,5) overwritten by 3 (a second 3 in column 5 and its block)
InitHoles ==
    /\ order = 3
    /\ \E H \in SUBSET HoleCells, dup \in BOOLEAN, m1 \in 0..2, m2 \in 0..2, m3 \in 0..2 :
          /\ Cardinality(H) <= MaxHoles
          /\ dup => (m1 = 0 /\ m2 = 0 /\ m3 = 0)
          /\ Constructed(
                [c \in Cells |-> IF c \in H THEN 0
                                 ELSE IF dup /\ c = <<1, 5>> THEN 3
                                 ELSE ReferenceGrid[c[1] + 1][c[2] + 1]],
                [e \in Idx \X (0 .. N - 2) |-> IF e = <<1, 6>> THEN m1
                                               ELSE IF e = <<1, 7>> THEN m2 ELSE 0],
                [e \in (0 .. N - 2) \X Idx |-> IF e = <<5, 7>> THEN m3 ELSE 0])

\* the 9x9 board with every cell Empty and no markers
InitEmpty ==
    /\ order = 3
    /\ Constructed([c \in Cells |-> 0],
                   [e \in Idx \X (0 .. N - 2) |-> 0],
                   [e \in (0 .. N - 2) \X Idx |-> 0])

\* the 9x9 board with (0,1) = 4, a White marker between (0,0) and (0,1), every other
\* cell Empty and no other marker
InitWhitePair ==
    /\ order = 3
    /\ Constructed([c \in Cells |-> IF c = <<0, 1>> THEN 4 ELSE 0],
                   [e \in Idx \X (0 .. N - 2) |-> IF e = <<0, 0>> THEN 1 ELSE 0],
                   [e \in (0 .. N - 2) \X Idx |-> 0])

Init == InitHoles \/ InitEmpty \/ InitWhitePair

Spec == Init /\ [][Next]_vars

\* 4x4 boards (box side 2): two pre-filled cells in one row, equal or not,
\* every other cell Empty, no markers
InitSmall ==
    /\ order = 2
    /\ \E r \in Idx, c1 \in Idx, c2 \in Idx, v1 \in Values, v2 \in Values :
          /\ c1 < c2
          /\ Constructed(
                [c \in Cells |-> IF c = <<r, c1>> THEN v1
                                 ELSE IF c = <<r, c2>> THEN v2 ELSE 0],
                [e \in Idx \X (0 .. N - 2) |-> 0],
                [e \in (0 .. N - 2) \X Idx |-> 0])

SpecSmall == InitSmall /\ [][Next]_vars

\* the scheduling of the search: the program is sequential and always takes its next step
FairSpec == Spec /\ WF_vars(Next)

FairSpecSmall == SpecSmall /\ WF_vars(Next)

\* ================================================================ properties
\* The rules of the puzzle, stated on sets of cells, independently of the code.

\* the rows, the columns and the blocks
Units ==
    {{<<r, c>> : c \in Idx} : r \in Idx}
    \cup {{<<r, c>> : r \in Idx} : c \in Idx}
    \cup {{x \in Cells : x[1] \div order = br /\ x[2] \div order = bc} :
             br \in 0 .. (order - 1), bc \in 0 .. (order - 1)}

Adjacent(a, b) == abs(a[1] - b[1]) + abs(a[2] - b[2]) = 1

\* the marker on the edge between two adjacent cells
MarkerBetween(a, b) ==
    IF a[1] = b[1]
    THEN horizontal_dots[<<a[1], IF a[2] < b[2] THEN a[2] ELSE b[2]>>]
    ELSE vertical_dots[<<IF a[1] < b[1] THEN a[1] ELSE b[1], a[2]>>]

White(x, y) == x - y = 1 \/ y - x = 1

Black(x, y) == x = 2 * y \/ y = 2 * x

Related(m, x, y) == (m = 1 => White(x, y)) /\ (m = 2 => Black(x, y))

NoDuplicates(bd) ==
    \A u \in Units : \A a \in u, b \in u :
        (a # b /\ bd[a] # 0) => bd[a] # bd[b]

MarkersHold(bd) ==
    \A a \in Cells :
        \A b \in {<<a[1], a[2] + 1>>, <<a[1] + 1, a[2]>>} \cap Cells :
            (bd[a] # 0 /\ bd[b] # 0) => Related(MarkerBetween(a, b), bd[a], bd[b])

\* the pre-filled cells are mutually consistent
Consistent(bd) == NoDuplicates(bd) /\ MarkersHold(bd)

EmptyCells(bd) == {c \in Cells : bd[c] = 0}

\* the contract of the constraint evaluator (spec 4.1 (a)-(d))
Legal(bd, cell, value) ==
    /\ \A d \in Cells :
          (d[1] = cell[1] \/ d[2] = cell[2]
             \/ <<d[1] \div order, d[2] \div order>> = <<cell[1] \div order, cell[2] \div order>>)
          => bd[d] # value
    /\ \A d \in Cells :
          (Adjacent(cell, d) /\ bd[d] # 0) => Related(MarkerBetween(cell, d), value, bd[d])

\* some full assignment of the Empty cells of bd breaks no rule (exhaustive, row-major)
RECURSIVE Solvable(_)
Solvable(bd) ==
    IF EmptyCells(bd) = {} THEN TRUE
    ELSE LET c == CHOOSE x \in EmptyCells(bd) :
                     \A y \in EmptyCells(bd) : x[1] * N + x[2] <= y[1] * N + y[2]
         IN  \E v \in Values : Legal(bd, c, v) /\ Solvable([bd EXCEPT ![c] = v])

\* C1: from a consistent initial board, a successful solve() leaves no Empty cell
\* and every row, column and block holds each value exactly once
C1_SolvedGridValid ==
    (result = "Solved" /\ Consistent(initial_board)) =>
        /\ EmptyCells(board) = {}
        /\ \A u \in Units, v \in Values : Cardinality({c \in u : board[c] = v}) = 1

C1_Witness ==
    /\ result = "Solved"
    /\ Consistent(initial_board)
    /\ Cardinality(EmptyCells(initial_board)) >= 2
    /\ nassign > Cardinality(EmptyCells(initial_board))

\* C2: from a consistent initial board, a successful solve() leaves every White pair
\* differing by 1 and every Black pair with one value double the other
C2_SolvedMarkersHold ==
    (result = "Solved" /\ Consistent(initial_board)) =>
        \A a \in Cells, b \in Cells :
            Adjacent(a, b) =>
                /\ MarkerBetween(a, b) = 1 => abs(board[a] - board[b]) = 1
                /\ MarkerBetween(a, b) = 2 =>
                      (board[a] = 2 * board[b] \/ board[b] = 2 * board[a])

\* a solved grid with a marker between two cells the search filled
C2_Witness ==
    /\ result = "Solved"
    /\ Consistent(initial_board)
    /\ \E a \in Cells, b \in Cells :
          /\ Adjacent(a, b)
          /\ MarkerBetween(a, b) # 0
          /\ initial_board[a] = 0
          /\ initial_board[b] = 0

\* two equal pre-filled values in one row, every other cell Empty, no markers
ContradictoryInit ==
    /\ \E a \in Cells, b \in Cells :
          /\ a # b
          /\ a[1] = b[1]
          /\ initial_board[a] # 0
          /\ initial_board[a] = initial_board[b]
          /\ \A c \in Cells \ {a, b} : initial_board[c] = 0
    /\ \A e \in DOMAIN horizontal_dots : horizontal_dots[e] = 0
    /\ \A e \in DOMAIN vertical_dots : vertical_dots[e] = 0

C4_SearchComplete ==
    /\ (result = "Unsatisfiable" /\ Consistent(initial_board)) => ~ Solvable(initial_board)
    /\ ( /\ pc = "done"
         /\ EmptyCells(initial_board) = Cells
         /\ \A e \in DOMAIN horizontal_dots : horizontal_dots[e] = 0
         /\ \A e \in DOMAIN vertical_dots : vertical_dots[e] = 0 ) => result = "Solved"
    /\ ( /\ pc = "done"
         /\ Cardinality(EmptyCells(initial_board)) = 1
         /\ Consistent(initial_board) ) =>
            \A c \in EmptyCells(initial_board), v \in Values :
                ( /\ \A w \in Values \ {v} : \E u \in Units, d \in Cells :
                        c \in u /\ d \in u /\ initial_board[d] = w
                  /\ Legal(initial_board, c, v) )
                    => (result = "Solved" /\ board[c] = v)

\* a solvable consistent board on which the search had to backtrack before it succeeded
C4_Witness ==
    /\ result = "Solved"
    /\ Consistent(initial_board)
    /\ Cardinality(EmptyCells(initial_board)) >= 4
    /\ nassign > Cardinality(EmptyCells(initial_board))

\* number of recursive calls of solve() that are active (the top-level call is not one)
RecursionDepth == Len(stack) + (IF pc = "call" THEN 1 ELSE 0) - 1

\* C5: every run of solve() reaches Solved or Unsatisfiable; the cells of the active
\* calls are distinct cells that were Empty initially, so the recursion depth never
\* exceeds the number of initially Empty cells
C5_Terminates ==
    /\ <>(pc = "done" /\ result \in {"Solved", "Unsatisfiable"})
    /\ [](/\ RecursionDepth <= Cardinality(EmptyCells(initial_board))
          /\ \A k \in 1 .. Len(stack) :
                /\ initial_board[<<stack[k].row, stack[k].col>>] = 0
                /\ \A j \in 1 .. Len(stack) :
                      (stack[j].row = stack[k].row /\ stack[j].col = stack[k].col) => j = k)

\* the search ended after it reached the largest possible recursion depth
C5_Witness ==
    /\ pc = "done"
    /\ result = "Unsatisfiable"
    /\ nassign >= 2
    /\ Cardinality(EmptyCells(initial_board)) >= 2

\* C6: from a consistent initial board, in every state of the search no two cells of a
\* row, column or block hold equal nonzero values and every marker between two
\* assigned cells is satisfied
C6_PartialGridConsistent ==
    \/ NoDuplicates(board) /\ MarkersHold(board)
    \/ ~ Consistent(initial_board)

\* in the middle of the search, a marker between two cells the search has assigned
C6_Witness ==
    /\ pc = "forward_check"
    /\ Len(stack) >= 2
    /\ Consistent(initial_board)
    /\ \E a \in Cells, b \in Cells :
          /\ Adjacent(a, b)
          /\ MarkerBetween(a, b) # 0
          /\ initial_board[a] = 0 /\ board[a] # 0
          /\ initial_board[b] = 0 /\ board[b] # 0

\* C7: at every entry to solve(), after every forward_check and after every
\* restore_domains, the domain of each Empty cell contains every value that
\* is_valid_assignment accepts for it on the current board
C7_DomainsCoverLegalValues ==
    pc \in {"call", "loop", "unassign"} =>
        \A c \in Cells :
            board[c] = 0 =>
                \A v \in Values : is_valid_assignment(board, c[1], c[2], v) => v \in domains[c]

\* back at the loop of the top-level call after an assignment was propagated, undone
\* and the domains restored, with a marker on the board
C7_Witness ==
    /\ pc = "loop"
    /\ Len(stack) = 1
    /\ nassign >= 2
    /\ \E e \in DOMAIN horizontal_dots : horizontal_dots[e] # 0
    /\ \E c \in Cells : board[c] = 0 /\ domains[c] # Values

\* C8: for an Empty cell, is_valid_assignment accepts a value exactly when no cell of
\* the row, column or block holds it and every assigned neighbour joined by a marker
\* is in the marker's relation with it; a rejected candidate changes neither the
\* grid nor the domains
C8_EvaluatorContract ==
    /\ [](\A c \in Cells :
             board[c] = 0 =>
                \A v \in Values :
                    is_valid_assignment(board, c[1], c[2], v) <=> Legal(board, c, v))
    /\ [][(pc = "loop" /\ pc' = "loop") => (board' = board /\ domains' = domains)]_vars

\* an Empty cell with an assigned neighbour across a Black marker and one across a
\* White marker, while the search runs
C8_Witness ==
    /\ pc = "loop"
    /\ \E c \in Cells, d \in Cells, e \in Cells :
          /\ board[c] = 0
          /\ Adjacent(c, d) /\ board[d] # 0 /\ MarkerBetween(c, d) = 2
          /\ Adjacent(c, e) /\ board[e] # 0 /\ MarkerBetween(c, e) = 1

\* C9: every cell that was pre-filled keeps its initial value, the cells of the active
\* calls were Empty initially, and a fully pre-filled valid board ends Solved,
\* unchanged, with no assignment performed
C9_PrefilledCellsFixed ==
    /\ \A c \in Cells : initial_board[c] # 0 => board[c] = initial_board[c]
    /\ \A k \in 1 .. Len(stack) : initial_board[<<stack[k].row, stack[k].col>>] = 0
    /\ ( /\ pc = "done"
         /\ EmptyCells(initial_board) = {}
         /\ Consistent(initial_board) ) =>
            (result = "Solved" /\ board = initial_board /\ nassign = 0)

\* the search has assigned and unassigned cells next to pre-filled ones
C9_Witness ==
    /\ pc = "done"
    /\ nassign > Cardinality(EmptyCells(initial_board))
    /\ EmptyCells(initial_board) # {}
    /\ \E c \in Cells : initial_board[c] # 0

\* C10: when a call of solve() returns failure the grid equals the grid at its entry,
\* and when the top-level call ends in Unsatisfiable the grid equals the initial board
C10_FailureRestoresGrid ==
    /\ (pc = "loop" /\ top.i > Len(top.cands)) => board = top.entry
    /\ result = "Unsatisfiable" => board = initial_board

\* a nested call returns failure after it made assignments of its own
C10_Witness ==
    /\ pc = "loop"
    /\ Len(stack) >= 2
    /\ top.i > Len(top.cands)
    /\ \E k \in 1 .. Len(top.cands) :
          is_valid_assignment(board, top.row, top.col, top.cands[k])

\* the board of InitWhitePair
WhitePairBoard ==
    /\ order = 3
    /\ initial_board = [c \in Cells |-> IF c = <<0, 1>> THEN 4 ELSE 0]
    /\ horizontal_dots = [e \in Idx \X (0 .. N - 2) |-> IF e = <<0, 0>> THEN 1 ELSE 0]
    /\ \A e \in DOMAIN vertical_dots : vertical_dots[e] = 0

\* C11: on the board with (0,0) Empty, (0,1) = 4, a White marker between them and
\* nothing else, solve() ends in success and the solved grid holds 3 at (0,0)
C11_WhitePairTakesSmaller ==
    (WhitePairBoard /\ pc = "done") =>
        /\ result = "Solved"
        /\ board[<<0, 0>>] = 3
        /\ EmptyCells(board) = {}

C11_Witness ==
    /\ WhitePairBoard
    /\ pc = "done"
    /\ nassign >= 80

\* C12: the search is deterministic: the state at the top-level entry is fixed by the
\* initial board and the markers, and every step taken is the only step possible, so
\* two runs from the same input pass through the same grids to the same outcome
C12_Deterministic ==
    /\ []((pc = "call" /\ stack = <<>>) =>
            /\ board = initial_board
            /\ domains = [c \in Cells |->
                             IF initial_board[c] = 0 THEN Values ELSE {initial_board[c]}]
            /\ result = "Searching")
    /\ [][\A w \in {vars'} : ~ ENABLED (Next /\ vars' # w)]_vars

\* a run that ended after it had to choose among several Empty cells with domains of
\* the same size and among several candidate values, and undid assignments
C12_Witness ==
    /\ pc = "done"
    /\ Cardinality(EmptyCells(initial_board)) >= 3
    /\ nassign > Cardinality(EmptyCells(initial_board))

\* the cells that share a row, a column or a block with a cell
Peers(c) ==
    {d \in Cells \ {c} :
        \/ d[1] = c[1]
        \/ d[2] = c[2]
        \/ <<d[1] \div order, d[2] \div order>> = <<c[1] \div order, c[2] \div order>>}

AssignedPeers(bd, c) == Cardinality({d \in Peers(c) : bd[d] # 0})

\* position in the row-major scan
ScanIndex(c) == c[1] * N + c[2]

\* cell a goes before cell b: fewer remaining values, then more assigned peers, then
\* earlier in the scan
Preferred(bd, doms, a, b) ==
    LET ra == Cardinality(doms[a])
        rb == Cardinality(doms[b])
        da == AssignedPeers(bd, a)
        db == AssignedPeers(bd, b)
    IN  \/ ra < rb
        \/ ra = rb /\ da > db
        \/ ra = rb /\ da = db /\ ScanIndex(a) < ScanIndex(b)

\* C13: select_unassigned_variable returns None exactly when no cell is Empty, and
\* otherwise the Empty cell with the smallest domain, among those the one with the
\* most assigned peers, among those the first in row-major order
C13_SelectionRule ==
    \A sel \in {select_unassigned_variable(board, domains)} :
        /\ sel = None <=> EmptyCells(board) = {}
        /\ sel # None =>
              /\ sel \in EmptyCells(board)
              /\ \A d \in EmptyCells(board) \ {sel} : Preferred(board, domains, sel, d)

\* a call whose selection was decided by the degree against an earlier cell and by the
\* scan order against a later one
C13_Witness ==
    /\ pc = "loop"
    /\ top.i = 1
    /\ Len(stack) >= 2
    /\ \E sel \in {<<top.row, top.col>>} :
          /\ sel = select_unassigned_variable(board, domains)
          /\ \E d \in EmptyCells(board) :
                /\ ScanIndex(d) < ScanIndex(sel)
                /\ Cardinality(domains[d]) = Cardinality(domains[sel])
                /\ AssignedPeers(board, d) < AssignedPeers(board, sel)
          /\ \E e \in EmptyCells(board) :
                /\ ScanIndex(e) > ScanIndex(sel)
                /\ Cardinality(domains[e]) = Cardinality(domains[sel])
                /\ AssignedPeers(board, e) = AssignedPeers(board, sel)

\* assigned cells of the row, of the column and of the block of a cell
RowAssigned(bd, c) == {d \in Cells : d[1] = c[1] /\ bd[d] # 0}

ColAssigned(bd, c) == {d \in Cells : d[2] = c[2] /\ bd[d] # 0}

BlockAssigned(bd, c) ==
    {d \in Cells : /\ d[1] \div order = c[1] \div order
                    /\ d[2] \div order = c[2] \div order
                    /\ bd[d] # 0}

\* C14 as stated: the degree of an Empty cell is the number of assigned cells of its
\* row, plus those of its column, plus those of its block, a cell that shares two of
\* them counted twice
C14_DegreeNotDeduplicated ==
    (pc = "loop" /\ top.i = 1) =>
        \A c \in EmptyCells(board) :
            count_constraints(board, c[1], c[2]) =
                Cardinality(RowAssigned(board, c)) + Cardinality(ColAssigned(board, c))
                + Cardinality(BlockAssigned(board, c))

\* C14 amended: the degree of an Empty cell is the number of distinct assigned cells
\* that share its row, column or block: the three unit counts less the assigned cells
\* that share the row and the block and those that share the column and the block
C14_DegreeCountsEachPeerOnce ==
    (pc = "loop" /\ top.i = 1) =>
        \A c \in EmptyCells(board) :
            count_constraints(board, c[1], c[2]) =
                Cardinality(RowAssigned(board, c)) + Cardinality(ColAssigned(board, c))
                + Cardinality(BlockAssigned(board, c))
                - Cardinality(RowAssigned(board, c) \cap BlockAssigned(board, c))
                - Cardinality(ColAssigned(board, c) \cap BlockAssigned(board, c))

\* a selection was just made among Empty cells, one of which has an assigned cell in
\* both its row and its block and one in both its column and its block
C14_Witness ==
    /\ pc = "loop"
    /\ top.i = 1
    /\ Cardinality(EmptyCells(board)) >= 2
    /\ \E c \in EmptyCells(board) :
          /\ RowAssigned(board, c) \cap BlockAssigned(board, c) # {}
          /\ ColAssigned(board, c) \cap BlockAssigned(board, c) # {}

\* C15: the candidates of a call are in strictly ascending order and are gone through
\* one by one in that order, and a value is written to the grid only at the cell of
\* the innermost call, as its current candidate, when it is in the cell's domain and
\* is_valid_assignment accepts it on the grid as it is
C15_AscendingValidTrials ==
    /\ [](\A k \in 1 .. Len(stack) :
            \A a \in 1 .. Len(stack[k].cands), b \in 1 .. Len(stack[k].cands) :
                a < b => stack[k].cands[a] < stack[k].cands[b])
    /\ [][(pc' = "loop" /\ pc # "call") =>
            /\ Len(stack') = Len(stack)
            /\ stack'[Len(stack)].cands = top.cands
            /\ stack'[Len(stack)].i = top.i + 1]_vars
    /\ [][\A c \in Cells :
            (board[c] = 0 /\ board'[c] # 0) =>
                /\ c = <<top.row, top.col>>
                /\ board'[c] = cur_num
                /\ board'[c] \in domains[c]
                /\ is_valid_assignment(board, c[1], c[2], board'[c])]_vars

\* a second value has just been assigned at a cell after a smaller one was assigned
\* there, propagated and undone, and the cell's domain was recomputed in between
C15_Witness ==
    /\ pc = "forward_check"
    /\ top.i >= 2
    /\ board[<<top.row, top.col>>] = cur_num
    /\ is_valid_assignment(top.entry, top.row, top.col, top.cands[1])
    /\ \E k \in 1 .. Len(top.cands) : top.cands[k] \notin domains[<<top.row, top.col>>]

\* C16: the step forward_check(row, col, value) leaves value in the domain of no other
\* Empty cell of the row, column or block; the domain of an Empty neighbour across a
\* White marker keeps only value - 1 and value + 1, across a Black marker only
\* value / 2 (when integral) and 2 * value, in both cases only what it held before;
\* the domain of an Empty neighbour across no marker loses nothing but value
C16_ForwardCheckPrunes ==
    [][pc = "forward_check" =>
        \A cell \in {<<top.row, top.col>>}, value \in {board[<<top.row, top.col>>]} :
            /\ \A d \in Peers(cell) : board[d] = 0 => value \notin domains'[d]
            /\ \A d \in Cells :
                  (Adjacent(cell, d) /\ board[d] = 0) =>
                      /\ domains'[d] \subseteq domains[d]
                      /\ MarkerBetween(cell, d) = 1 =>
                            domains'[d] \subseteq {value - 1, value + 1}
                      /\ MarkerBetween(cell, d) = 2 =>
                            domains'[d] \subseteq
                                {x \in Values : 2 * x = value} \cup {2 * value}
                      /\ MarkerBetween(cell, d) = 0 =>
                            domains'[d] = domains[d] \ {value}]_vars

\* forward_check has succeeded for a cell with an Empty neighbour across a White
\* marker and an Empty neighbour across a Black marker
C16_Witness ==
    /\ pc = "call"
    /\ stack # <<>>
    /\ \E d \in Cells, e \in Cells :
          /\ Adjacent(<<top.row, top.col>>, d) /\ board[d] = 0
          /\ MarkerBetween(<<top.row, top.col>>, d) = 1
          /\ Adjacent(<<top.row, top.col>>, e) /\ board[e] = 0
          /\ MarkerBetween(<<top.row, top.col>>, e) = 2
          /\ domains[d] # {} /\ domains[e] # {}

\* the cells a propagation from the cell of the innermost call touches: the Empty
\* cells of its row, column and block whose domain holds the value, and its Empty
\* neighbours
Touched ==
    {d \in Cells :
        /\ board[d] = 0
        /\ \/ d \in Peers(<<top.row, top.col>>) /\ cur_num \in domains[d]
           \/ Adjacent(<<top.row, top.col>>, d)}

\* C17: forward_check reports failure (control goes to the undo of line 353) exactly
\* when, after the pruning, the domain of some touched cell is empty, and reports
\* success (control goes to the recursive call) when every touched cell has a value left
C17_FailureIffEmptyDomain ==
    [][pc = "forward_check" =>
        /\ pc' = "unassign" <=> (\E d \in Touched : domains'[d] = {})
        /\ pc' = "call" <=> (\A d \in Touched : domains'[d] # {})]_vars

\* forward_check has just reported failure in the top-level call: every assignment
\* so far was a candidate of this call (nassign = top.i), so no nested call has
\* changed a domain, and an Empty neighbour of the cell has an empty domain
C17_Witness ==
    /\ pc = "unassign"
    /\ Len(stack) = 1
    /\ nassign = top.i
    /\ top.i < Len(top.cands)
    /\ \E d \in Cells :
          /\ board[d] = 0
          /\ Adjacent(<<top.row, top.col>>, d)
          /\ domains[d] = {}

\* C18: when forward_check reports failure for a candidate no call is made for it: the
\* same call undoes the assignment, restores the domains and goes on to its next
\* candidate; a call returns failure only when its candidates are exhausted
C18_FailureAbortsOneCandidate ==
    /\ [][(pc = "forward_check"
            /\ ~ forward_check(board, domains, top.row, top.col, cur_num).ok) =>
              (pc' = "unassign" /\ stack' = stack /\ board' = board)]_vars
    /\ [][pc = "unassign" =>
              /\ pc' = "restore"
              /\ stack' = stack
              /\ board' = [board EXCEPT ![<<top.row, top.col>>] = 0]]_vars
    /\ [][pc = "restore" =>
              /\ pc' = "loop"
              /\ board' = board
              /\ stack' = [stack EXCEPT ![Len(stack)].i = top.i + 1]]_vars
    /\ [][((pc = "loop" /\ Len(stack') < Len(stack)) \/ result' = "Unsatisfiable") =>
              (pc = "loop" /\ top.i > Len(top.cands))]_vars

\* the top-level call is at its next candidate after forward_check failed for the
\* previous one: all assignments so far were candidates of this call, and a
\* neighbour of the cell had an empty domain before that forward_check, as it has now
C18_Witness ==
    /\ pc = "loop"
    /\ Len(stack) = 1
    /\ top.i >= 3
    /\ top.i <= Len(top.cands)
    /\ nassign = top.i - 1
    /\ \E d \in Cells :
          /\ board[d] = 0
          /\ Adjacent(<<top.row, top.col>>, d)
          /\ domains[d] = {}

\* C19: the step restore_domains(row, col), taken after the assignment at (row, col)
\* is undone, sets the domain of every Empty cell of the row, column and block,
\* (row, col) included, to exactly the values is_valid_assignment accepts on the
\* reverted grid, and changes neither the grid nor any other domain
C19_RestoreRecomputes ==
    [][pc = "restore" =>
        \A cell \in {<<top.row, top.col>>} :
            /\ board[cell] = 0
            /\ board' = board
            /\ \A d \in Cells :
                  IF board[d] = 0 /\ (d = cell \/ d \in Peers(cell))
                  THEN domains'[d] =
                          {x \in Values : is_valid_assignment(board, d[1], d[2], x)}
                  ELSE domains'[d] = domains[d]]_vars

\* a nested call is back at its loop after an undo: the domain of its cell is no
\* longer the one it entered with, and an Empty cell outside the row, column and
\* block of the cell has a domain other than its legal values
C19_Witness ==
    /\ pc = "loop"
    /\ Len(stack) >= 2
    /\ top.i >= 2
    /\ \E k \in 1 .. Len(top.cands) : top.cands[k] \notin domains[<<top.row, top.col>>]
    /\ \E d \in Cells :
          /\ board[d] = 0
          /\ d # <<top.row, top.col>>
          /\ d \notin Peers(<<top.row, top.col>>)
          /\ domains[d] # {x \in Values : is_valid_assignment(board, d[1], d[2], x)}

\* C20: in every state the domain of every assigned cell, pre-filled or assigned by
\* the search, contains the cell's value, and no step changes the domain of a cell
\* that is assigned
C20_AssignedDomainsKept ==
    /\ [](\A c \in Cells : board[c] # 0 => board[c] \in domains[c])
    /\ [][\A c \in Cells : board[c] # 0 => domains'[c] = domains[c]]_vars

\* forward_check has succeeded next to a cell that the search assigned earlier, across
\* a marker, and that cell's domain still holds several values
C20_Witness ==
    /\ pc = "call"
    /\ Len(stack) >= 2
    /\ \E d \in Cells :
          /\ Adjacent(<<top.row, top.col>>, d)
          /\ MarkerBetween(<<top.row, top.col>>, d) # 0
          /\ initial_board[d] = 0
          /\ board[d] # 0
          /\ Cardinality(domains[d]) >= 2

====
